---- MODULE Spec2Model ----
(***************************************************************************)
(* State-machine model of the 2-favourite dutching bot:                    *)
(*   src/strategy.py   StrategyState, BotRunner (the staking arithmetic    *)
(*                     and the race-sequencing loop)                       *)
(*   src/webapp.py     the request handlers that drive it                  *)
(*   src/betfair_client.py  the collaborator whose results the loop reads  *)
(*                                                                         *)
(* Amounts and prices are Python floats in the source.  They are modelled  *)
(* as exact rationals <<numerator, denominator>> in lowest terms, so the   *)
(* arithmetic below is the real-number reading of the float expressions.   *)
(*                                                                         *)
(* The loop is an asyncio task.  Between two awaits a task runs without    *)
(* interleaving; request handlers and other tasks run only while every     *)
(* task is suspended in an await (or has not started yet).                 *)
(***************************************************************************)
EXTENDS Integers, Sequences, FiniteSets, TLC

\* ------------------------------------------------------------------------
\* Bounds of the model
\* ------------------------------------------------------------------------

\* Number of loop tasks that may be live at the same time.
MaxTasks == 2

\* Number of requests (start, stop, settings, selection) in one behaviour.
MaxOps == 4

\* Number of results recorded in one behaviour.
MaxHistory == 3

\* Number of settlement polls of one race in the model (the source polls up
\* to PollBudget times).
MaxPolls == 2

\* ------------------------------------------------------------------------
\* Exact rational arithmetic (the float arithmetic of the source)
\* ------------------------------------------------------------------------

RECURSIVE GCD(_, _)
GCD(a, b) ==
    IF b = 0 THEN a ELSE GCD(b, a % b)

Abs(x) ==
    IF x < 0 THEN -x ELSE x

\* The rational n/d in lowest terms with a positive denominator (d # 0).
Rat(n, d) ==
    LET g == GCD(Abs(n), Abs(d))
        s == IF d < 0 THEN -1 ELSE 1
    IN  <<(s * n) \div g, (s * d) \div g>>

Num(x) ==
    Rat(x, 1)

Zero ==
    Num(0)

\* Sums, products and comparisons cancel common factors first, so that the
\* intermediate integers stay small.
RAdd(x, y) ==
    LET g == GCD(x[2], y[2])
    IN  Rat(x[1] * (y[2] \div g) + y[1] * (x[2] \div g), (x[2] \div g) * y[2])

RNeg(x) ==
    <<-x[1], x[2]>>

RSub(x, y) ==
    RAdd(x, RNeg(y))

RMul(x, y) ==
    LET a == Rat(x[1], y[2])
        b == Rat(y[1], x[2])
    IN  Rat(a[1] * b[1], a[2] * b[2])

\* x / y for y # 0 (Python raises ZeroDivisionError otherwise).
RDiv(x, y) ==
    RMul(x, Rat(y[2], y[1]))

RLe(x, y) ==
    LET g == GCD(x[2], y[2])
    IN  x[1] * (y[2] \div g) <= y[1] * (x[2] \div g)

RLt(x, y) ==
    LET g == GCD(x[2], y[2])
    IN  x[1] * (y[2] \div g) < y[1] * (x[2] \div g)

\* Python max(a, b): b if b > a else a.
RMax(x, y) ==
    IF RLt(x, y) THEN y ELSE x

\* Python min(a, b): b if b < a else a.
RMin(x, y) ==
    IF RLt(y, x) THEN y ELSE x

\* Python "x or default" on a number: the default replaces a zero.
OrDefault(x, default) ==
    IF x = Zero THEN default ELSE x

\* ------------------------------------------------------------------------
\* Staking arithmetic (pure functions)
\* ------------------------------------------------------------------------

\* StrategyState.max_recovery_stake_percent: no code assigns it again.
max_recovery_stake_percent == 30

\* StrategyState.stop_after_win: no code assigns it again.
stop_after_win ==
    TRUE

\* inv_sum = (1.0 / o1) + (1.0 / o2)
InvSum(o1, o2) ==
    RAdd(RDiv(Num(1), o1), RDiv(Num(1), o2))

\* Mutant of dutch_calc: the stake is split evenly instead of by price.
dutch_calc_EvenSplit(total_stake, o1, o2) ==
    LET inv_sum == InvSum(o1, o2)
        stake1 == RDiv(total_stake, Num(2))
    IN  IF RLe(inv_sum, Zero)
        THEN [stake1 |-> Zero, stake2 |-> Zero, profit_each |-> RNeg(total_stake)]
        ELSE [stake1 |-> stake1,
              stake2 |-> RSub(total_stake, stake1),
              profit_each |-> RSub(RDiv(total_stake, inv_sum), total_stake)]

dutch_calc(total_stake, o1, o2) ==
    LET inv_sum == InvSum(o1, o2)
    IN  IF RLe(inv_sum, Zero)
        THEN [stake1 |-> Zero, stake2 |-> Zero, profit_each |-> RNeg(total_stake)]
        ELSE LET stake1 == RDiv(RMul(total_stake, RDiv(Num(1), o1)), inv_sum)
             IN  [stake1 |-> stake1,
                  stake2 |-> RSub(total_stake, stake1),
                  profit_each |-> RSub(RDiv(total_stake, inv_sum), total_stake)]

\* webapp._dutch_stakes: the dashboard's copy of the same calculation.
dutch_stakes(total_stake, o1, o2) ==
    LET inv_sum == InvSum(o1, o2)
    IN  IF RLe(inv_sum, Zero)
        THEN [stake1 |-> Zero, stake2 |-> Zero, profit_each |-> RNeg(total_stake)]
        ELSE LET s1 == RDiv(RMul(total_stake, RDiv(Num(1), o1)), inv_sum)
             IN  [stake1 |-> s1,
                  stake2 |-> RSub(total_stake, s1),
                  profit_each |-> RSub(RDiv(total_stake, inv_sum), total_stake)]

\* denom = (1.0 / inv_sum) - 1.0 if inv_sum > 0 else 0.0
Denom(o1, o2) ==
    LET inv_sum == InvSum(o1, o2)
    IN  IF RLt(Zero, inv_sum) THEN RSub(RDiv(Num(1), inv_sum), Num(1)) ELSE Zero

\* Mutant of RequiredStake: the target itself is staked, not target / denom.
RequiredStake_Undivided(rt, o1, o2) ==
    LET denom == Denom(o1, o2)
        desired_profit == RMax(Zero, rt)
    IN  IF RLt(Zero, desired_profit) /\ RLt(Zero, denom)
        THEN desired_profit
        ELSE Zero

\* required: the stake whose profit_each equals the recovery target.
RequiredStake(rt, o1, o2) ==
    LET denom == Denom(o1, o2)
        desired_profit == RMax(Zero, rt)
    IN  IF RLt(Zero, desired_profit) /\ RLt(Zero, denom)
        THEN RDiv(desired_profit, denom)
        ELSE Zero

\* Mutant of CapTotal: nothing caps the stake.
CapTotal_None(total, bk) ==
    total

\* Mutant of CapTotal: only the bank caps the stake.
CapTotal_BankOnly(total, bk) ==
    RMin(total, bk)

\* The safety cap and the bank cap applied to the uncapped total.
CapTotal(total, bk) ==
    LET cap == RMul(bk, RDiv(Num(max_recovery_stake_percent), Num(100)))
        capped == IF RLt(Zero, cap) THEN RMin(total, cap) ELSE total
    IN  RMin(capped, bk)

\* Mutant of compute_total_stake_for_recovery: the required stake is added
\* to the base stake instead of replacing it when larger.
compute_total_stake_for_recovery_Sum(bk, sp, rt, o1, o2) ==
    IF RLe(bk, Zero)
    THEN Zero
    ELSE LET base == RMul(bk, RDiv(sp, Num(100)))
             total == RAdd(base, RequiredStake(rt, o1, o2))
         IN  CapTotal(total, bk)

\* BotRunner._compute_total_stake_for_recovery, with the fields of self.state
\* it reads (bank, stake_percent, recovery_target) passed as bk, sp, rt.
compute_total_stake_for_recovery(bk, sp, rt, o1, o2) ==
    IF RLe(bk, Zero)
    THEN Zero
    ELSE LET base == RMul(bk, RDiv(sp, Num(100)))
             total == RMax(base, RequiredStake(rt, o1, o2))
         IN  CapTotal(total, bk)

\* ------------------------------------------------------------------------
\* Data of the model
\* ------------------------------------------------------------------------

None ==
    "None"

\* The markets the dashboard offers for selection, in page order.
MarketList ==
    <<"m1", "m2">>

NumMarkets ==
    Len(MarketList)

\* form.getlist("selected_markets"): the ticked markets, in page order.
RECURSIVE SubSeqsFrom(_)
SubSeqsFrom(i) ==
    IF i > NumMarkets
    THEN {<<>>}
    ELSE LET rest == SubSeqsFrom(i + 1)
         IN  rest \cup {<<MarketList[i]>> \o r : r \in rest}

Selections ==
    SubSeqsFrom(1)

\* One favourite as get_top_two_favourites returns it.
Fav(sid, n, d) ==
    [selection_id |-> sid, back |-> Rat(n, d)]

\* What get_top_two_favourites may return: at most two runners, cheapest
\* first.  2.0/4.0 has inv_sum < 1, 2.0/2.0 has inv_sum = 1 and 1.5/2.0 has
\* inv_sum > 1; 1.0 lies below every min_odds, and 1.5, 4.0 and 6.0 lie on
\* or outside the bounds of some configured odds range.  The two cheapest
\* runners are not the same at every fetch: runners 1 and 2, or 1 and 3.
FavLists ==
    { <<Fav(1, 2, 1)>>,
      <<Fav(1, 2, 1), Fav(2, 4, 1)>>,
      <<Fav(1, 2, 1), Fav(2, 2, 1)>>,
      <<Fav(1, 3, 2), Fav(2, 2, 1)>>,
      <<Fav(1, 1, 1), Fav(2, 3, 1)>>,
      <<Fav(1, 3, 1), Fav(3, 6, 1)>> }

\* What get_market_result may do: raise (status "RAISES"), or return a result.
\* winner_selection_id and the WINNER of runner_status are selection ids;
\* 0 stands for "absent" (None, no WINNER).
MarketResults ==
    { [status |-> "RAISES", winner_selection_id |-> 0, runner_winner |-> 0],
      [status |-> "OPEN",   winner_selection_id |-> 0, runner_winner |-> 0],
      [status |-> "CLOSED", winner_selection_id |-> 0, runner_winner |-> 0],
      [status |-> "CLOSED", winner_selection_id |-> 1, runner_winner |-> 0],
      [status |-> "CLOSED", winner_selection_id |-> 3, runner_winner |-> 0],
      [status |-> "CLOSED", winner_selection_id |-> 0, runner_winner |-> 2] }

\* A form field: the text parses as a number, or it does not.
Parsed(x) ==
    [ok |-> TRUE, val |-> x]

Unparsable ==
    [ok |-> FALSE, val |-> Zero]

\* The /update_settings forms submitted in the model.
SettingsForms ==
    { \* a narrower odds range 1.5..4.0, the 10 % profile, a bank reset
      [starting_bank |-> Parsed(Num(100)), current_bank |-> Parsed(Num(40)),
       stake_percent |-> Parsed(Num(5)), seconds_before_off |-> Parsed(Num(60)),
       min_odds |-> Parsed(Rat(3, 2)), max_odds |-> Parsed(Num(4)),
       tick_seconds |-> Parsed(Num(30)), profile |-> "10", reset_bank |-> TRUE],
      \* an empty bank and unparsable fields
      [starting_bank |-> Unparsable, current_bank |-> Parsed(Num(0)),
       stake_percent |-> Unparsable, seconds_before_off |-> Unparsable,
       min_odds |-> Unparsable, max_odds |-> Unparsable,
       tick_seconds |-> Unparsable, profile |-> None, reset_bank |-> FALSE],
      \* out-of-range values that the handler clamps
      [starting_bank |-> Parsed(Num(100)), current_bank |-> Parsed(Num(100)),
       stake_percent |-> Parsed(Num(5)), seconds_before_off |-> Parsed(Num(-5)),
       min_odds |-> Parsed(Rat(1, 2)), max_odds |-> Parsed(Num(1)),
       tick_seconds |-> Parsed(Num(1)), profile |-> None, reset_bank |-> FALSE] }

\* range(360) in _wait_for_settlement_and_record
PollBudget == 360

\* The number of polls after which the loop gives up where the whole bot is
\* modelled; the poll loop on its own (SpecPoll) runs the full PollBudget.
PollLimit ==
    IF MaxPolls < PollBudget THEN MaxPolls ELSE PollBudget

\* ------------------------------------------------------------------------
\* State
\* ------------------------------------------------------------------------

VARIABLES
    \* StrategyState
    starting_bank, bank, stake_percent,
    selected_markets, current_index, current_market_id,
    seconds_before_off, min_odds, max_odds, tick_seconds,
    running, history,
    last_total_stake, last_favourites,
    recovery_target,
    \* BotRunner and its client
    tasks,          \* the loop tasks: slot -> the frame of _run_loop
    runner_task,    \* BotRunner._task: the slot of the last task created, 0 = None
    use_dummy,      \* client.use_dummy
    poll_range,     \* the n of "for _ in range(n)" in the settlement poll loop
    timed,          \* time is followed: TRUE in SpecClock only
    clock,          \* where time is followed, the seconds until the advertised
                    \* start of the market the loop has in hand (negative
                    \* after the off)
    \* bookkeeping of the model
    op,             \* the step taken last: its name and the task that took it
                    \* (and the winner named by the result that a poll recorded)
    n_ops,          \* requests handled so far
    \* the calculator on its own: its arguments and what it returned
    calc_in, calc_out

\* What no step of the bot changes.
fixed0 == <<use_dummy, poll_range, timed, calc_in, calc_out>>

\* What no step changes but those in which time passes.
fixed == <<fixed0, clock>>

\* The settings other than the bank.
settings == <<starting_bank, stake_percent, seconds_before_off,
              min_odds, max_odds, tick_seconds>>

botvars == <<starting_bank, bank, stake_percent, selected_markets, current_index,
             current_market_id, seconds_before_off, min_odds, max_odds,
             tick_seconds, running, history, last_total_stake, last_favourites,
             recovery_target, tasks, runner_task, use_dummy, poll_range, timed, clock,
             op, n_ops>>

vars == <<starting_bank, bank, stake_percent, selected_markets, current_index,
          current_market_id, seconds_before_off, min_odds, max_odds,
          tick_seconds, running, history, last_total_stake, last_favourites,
          recovery_target, tasks, runner_task, use_dummy, poll_range, timed, clock,
          op, n_ops, calc_in, calc_out>>

Slots ==
    1..MaxTasks

\* The locals total_stake, favs_in_range[:2] and profit_each of _run_loop
\* while none is in use.
NoReady ==
    [total_stake |-> Zero, favs |-> <<>>, profit_each |-> Zero]

\* A finished (or never created) task.
NoTask ==
    [pc |-> "done", market_id |-> None, favs |-> <<>>, sel_ids |-> {},
     polls |-> 0, chunks |-> 0, sleep_for |-> 0, ready |-> NoReady,
     cancel |-> FALSE]

\* The places where a task is suspended in an await, and "new": created by
\* create_task and not run yet.
Suspended ==
    {"done", "new", "pre_sleep", "grace", "dummy_sleep", "poll_sleep"}

\* No task is between two awaits: the event loop picks what runs next.
Idle ==
    \A t \in Slots : tasks[t].pc \in Suspended

Live(t) ==
    tasks[t].pc # "done"

\* No call of the calculator on its own.
NoCalc ==
    [fn |-> None]

\* StrategyState() and BotRunner.__init__
BotInit ==
    /\ starting_bank = Num(100)
    /\ bank = Num(100)
    /\ stake_percent = Num(5)
    /\ selected_markets = <<>>
    /\ current_index = 0
    /\ current_market_id = None
    /\ seconds_before_off = 60
    /\ min_odds = Rat(101, 100)
    /\ max_odds = Num(1000)
    /\ tick_seconds = 30
    /\ running = FALSE
    /\ history = <<>>
    /\ last_total_stake = Zero
    /\ last_favourites = <<>>
    /\ recovery_target = Zero
    /\ tasks = [t \in Slots |-> NoTask]
    /\ runner_task = 0
    /\ use_dummy \in BOOLEAN
    /\ poll_range = PollLimit
    /\ timed = FALSE
    /\ clock = 0
    /\ op = [name |-> "init", task |-> 0]
    /\ n_ops = 0

Init ==
    /\ BotInit
    /\ calc_in = NoCalc
    /\ calc_out = NoCalc

\* ------------------------------------------------------------------------
\* Request handlers (src/webapp.py) and BotRunner.start / stop
\* ------------------------------------------------------------------------

\* A request is handled while no task is between two awaits.
Request(name) ==
    /\ Idle
    /\ n_ops < MaxOps
    /\ n_ops' = n_ops + 1
    /\ op' = [name |-> name, task |-> 0]

\* Mutant of StartIndex: the index is compared with 0, so start() always goes
\* back to the first market.
StartIndex_Zero ==
    IF current_index >= 0 THEN 0 ELSE current_index

\* if current_index >= len(selected_markets): current_index = 0
StartIndex ==
    IF current_index >= Len(selected_markets) THEN 0 ELSE current_index

\* The lowest free task slot.
FreeSlot ==
    CHOOSE t \in Slots : ~Live(t) /\ \A u \in Slots : ~Live(u) => t <= u

\* BotRunner.start
start ==
    /\ Request("start")
    /\ IF running \/ selected_markets = <<>>
       THEN UNCHANGED <<running, current_index, tasks, runner_task>>
       ELSE /\ \E t \in Slots : ~Live(t)
            /\ running' = TRUE
            /\ current_index' = StartIndex
            /\ tasks' = [tasks EXCEPT ![FreeSlot] = [NoTask EXCEPT !.pc = "new"]]
            /\ runner_task' = FreeSlot
    /\ UNCHANGED <<settings, bank, selected_markets, current_market_id, history,
                   last_total_stake, last_favourites, recovery_target, fixed>>

\* BotRunner.stop
stop ==
    /\ Request("stop")
    /\ running' = FALSE
    /\ tasks' = IF runner_task # 0 /\ Live(runner_task)
                THEN [tasks EXCEPT ![runner_task].cancel = TRUE]
                ELSE tasks
    /\ UNCHANGED <<settings, bank, selected_markets, current_index, current_market_id,
                   history, last_total_stake, last_favourites, recovery_target,
                   runner_task, fixed>>

\* f(v, default) / i(v, default): the parsed field, or the default.
FieldOr(field, default) ==
    IF field.ok THEN field.val ELSE default

\* int(x): truncation toward zero.
Trunc(x) ==
    IF x[1] >= 0 THEN x[1] \div x[2] ELSE -((-x[1]) \div x[2])

IntOrDefault(n, default) ==
    IF n = 0 THEN default ELSE n

IntMax(a, b) ==
    IF b > a THEN b ELSE a

Profiles ==
    {"2", "5", "10", "15", "20"}

\* float(profile)
ProfileValue(profile) ==
    CASE profile = "2" -> Num(2)
      [] profile = "5" -> Num(5)
      [] profile = "10" -> Num(10)
      [] profile = "15" -> Num(15)
      [] profile = "20" -> Num(20)

\* Mutant of update_settings: the values are stored as submitted, without the
\* clamps.
update_settings_Unclamped(form) ==
    LET sb  == FieldOr(form.starting_bank, OrDefault(starting_bank, Num(100)))
        cb  == FieldOr(form.current_bank, OrDefault(bank, sb))
        sp0 == FieldOr(form.stake_percent, OrDefault(stake_percent, Num(5)))
        sbo == IF form.seconds_before_off.ok
               THEN Trunc(form.seconds_before_off.val)
               ELSE IntOrDefault(seconds_before_off, 60)
        mn  == FieldOr(form.min_odds, OrDefault(min_odds, Rat(101, 100)))
        mx  == FieldOr(form.max_odds, OrDefault(max_odds, Num(1000)))
        tk  == IF form.tick_seconds.ok
               THEN Trunc(form.tick_seconds.val)
               ELSE IntOrDefault(tick_seconds, 30)
        sp  == IF form.profile \in Profiles THEN ProfileValue(form.profile) ELSE sp0
        new_min == RMax(Rat(101, 100), mn)
    IN  /\ Request("update_settings")
        /\ starting_bank' = sb
        /\ bank' = IF form.reset_bank THEN sb ELSE cb
        /\ stake_percent' = sp
        /\ seconds_before_off' = sbo
        /\ min_odds' = mn
        /\ max_odds' = mx
        /\ tick_seconds' = tk
        /\ UNCHANGED <<selected_markets, current_index, current_market_id, running,
                       history, last_total_stake, last_favourites, recovery_target,
                       tasks, runner_task, fixed>>

\* POST /update_settings
update_settings(form) ==
    LET sb  == FieldOr(form.starting_bank, OrDefault(starting_bank, Num(100)))
        cb  == FieldOr(form.current_bank, OrDefault(bank, sb))
        sp0 == FieldOr(form.stake_percent, OrDefault(stake_percent, Num(5)))
        sbo == IF form.seconds_before_off.ok
               THEN Trunc(form.seconds_before_off.val)
               ELSE IntOrDefault(seconds_before_off, 60)
        mn  == FieldOr(form.min_odds, OrDefault(min_odds, Rat(101, 100)))
        mx  == FieldOr(form.max_odds, OrDefault(max_odds, Num(1000)))
        tk  == IF form.tick_seconds.ok
               THEN Trunc(form.tick_seconds.val)
               ELSE IntOrDefault(tick_seconds, 30)
        sp  == IF form.profile \in Profiles THEN ProfileValue(form.profile) ELSE sp0
        new_min == RMax(Rat(101, 100), mn)
    IN  /\ Request("update_settings")
        /\ starting_bank' = sb
        /\ bank' = IF form.reset_bank THEN sb ELSE cb
        /\ stake_percent' = sp
        /\ seconds_before_off' = IntMax(0, sbo)
        /\ min_odds' = new_min
        /\ max_odds' = RMax(new_min, mx)
        /\ tick_seconds' = IntMax(5, tk)
        /\ UNCHANGED <<selected_markets, current_index, current_market_id, running,
                       history, last_total_stake, last_favourites, recovery_target,
                       tasks, runner_task, fixed>>

\* POST /update_race_selection
update_race_selection(selection) ==
    /\ Request("update_race_selection")
    /\ selected_markets' = selection
    /\ current_index' = 0
    /\ UNCHANGED <<settings, bank, current_market_id, running, history, last_total_stake,
                   last_favourites, recovery_target, tasks, runner_task, fixed>>

\* ------------------------------------------------------------------------
\* BotRunner helpers that change the state
\* ------------------------------------------------------------------------

Step(name, t) ==
    op' = [name |-> name, task |-> t]

\* The frame of task t becomes frame.
SetTask(t, frame) ==
    tasks' = [tasks EXCEPT ![t] = frame]

\* The task resumes at pc (a pending cancellation is delivered at the await
\* it resumes from, so it is no longer pending).
Resume(t, pc) ==
    SetTask(t, [tasks[t] EXCEPT !.pc = pc, !.cancel = FALSE, !.favs = <<>>])

\* The coroutine returns or raises: the task is done.
Finish(t) ==
    SetTask(t, NoTask)

\* BotRunner._advance_market
advance_market ==
    /\ current_index' = current_index + 1
    /\ current_market_id' = None
    /\ last_favourites' = <<>>
    /\ last_total_stake' = Zero

\* pl of _record_auto_result (favs holds two favourites when won)
ProfitLoss(won, total_stake, favs) ==
    IF won
    THEN dutch_calc(total_stake, favs[1].back, favs[2].back).profit_each
    ELSE RNeg(total_stake)

\* Mutant of RecoveryAfter: a loss leaves the recovery target as it was.
RecoveryAfter_Forgets(won, rt, total_stake) ==
    IF won THEN Zero ELSE rt

\* Mutant of RecoveryAfter: a win leaves the recovery target as it was.
RecoveryAfter_KeptOnWin(won, rt, total_stake) ==
    IF won THEN rt ELSE RAdd(rt, total_stake)

\* Recovery update (Option B)
RecoveryAfter(won, rt, total_stake) ==
    IF won THEN Zero ELSE RAdd(rt, total_stake)

\* Mutant of RunningAfter: a win does not stop the bot.
RunningAfter_KeepsRunning(won, was_running) ==
    was_running

\* Mutant of RunningAfter: every result stops the bot.
RunningAfter_StopsAlways(won, was_running) ==
    FALSE

\* Option B stop-after-win
RunningAfter(won, was_running) ==
    IF won /\ stop_after_win THEN FALSE ELSE was_running

\* Mutant of record_auto_result: the entry is built before the bank update.
record_auto_result_StaleBank(market_id, won) ==
    LET total_stake == last_total_stake
        pl == ProfitLoss(won, total_stake, last_favourites)
        rt == RecoveryAfter(won, recovery_target, total_stake)
    IN  /\ Len(history) < MaxHistory
        /\ bank' = RAdd(bank, pl)
        /\ recovery_target' = rt
        /\ history' = Append(history,
                             [market_id |-> market_id, total_stake |-> total_stake,
                              pl |-> pl, won |-> won,
                              recovery_target_after |-> rt,
                              bank_after |-> bank])
        /\ running' = RunningAfter(won, running)
        /\ advance_market

\* BotRunner._record_auto_result (ts_utc and the names are left out of the entry)
record_auto_result(market_id, won) ==
    LET total_stake == last_total_stake
        pl == ProfitLoss(won, total_stake, last_favourites)
        rt == RecoveryAfter(won, recovery_target, total_stake)
    IN  /\ Len(history) < MaxHistory
        /\ bank' = RAdd(bank, pl)
        /\ recovery_target' = rt
        /\ history' = Append(history,
                             [market_id |-> market_id, total_stake |-> total_stake,
                              pl |-> pl, won |-> won,
                              recovery_target_after |-> rt,
                              bank_after |-> RAdd(bank, pl)])
        /\ running' = RunningAfter(won, running)
        /\ advance_market

\* favs[0]["back"] / favs[1]["back"] raise IndexError on a shorter list.
RecordRaises(won) ==
    won /\ Len(last_favourites) < 2

\* ------------------------------------------------------------------------
\* BotRunner._run_loop, one action per outcome of each segment
\* ------------------------------------------------------------------------

\* The task created by start() runs for the first time, unless it was
\* cancelled before: then the coroutine never runs.
TaskBegin(t) ==
    /\ tasks[t].pc = "new"
    /\ Idle
    /\ IF tasks[t].cancel
       THEN Finish(t) /\ Step("cancelled", t)
       ELSE Resume(t, "loop") /\ Step("begin", t)
    /\ UNCHANGED <<settings, bank, selected_markets, current_index, current_market_id,
                   running, history, last_total_stake, last_favourites,
                   recovery_target, runner_task, fixed, n_ops>>

\* Mutant of LoopRunning: the loop does not test the running flag.
LoopRunning_Always ==
    TRUE

\* while self.state.running
LoopRunning ==
    running

\* The while condition fails: "Loop finished."
LoopFinished(t) ==
    /\ tasks[t].pc = "loop"
    /\ ~LoopRunning
    /\ Finish(t)
    /\ Step("finished", t)
    /\ UNCHANGED <<settings, bank, selected_markets, current_index, current_market_id,
                   running, history, last_total_stake, last_favourites,
                   recovery_target, runner_task, fixed, n_ops>>

\* Mutant of Exhausted: the index is compared with > instead of >=.
Exhausted_OffByOne ==
    current_index > Len(selected_markets)

\* if self.state.current_index >= len(self.state.selected_markets)
Exhausted ==
    current_index >= Len(selected_markets)

\* current_index >= len(selected_markets): "No more selected markets."
LoopExhausted(t) ==
    /\ tasks[t].pc = "loop"
    /\ LoopRunning
    /\ Exhausted
    /\ running' = FALSE
    /\ Finish(t)
    /\ Step("exhausted", t)
    /\ UNCHANGED <<settings, bank, selected_markets, current_index, current_market_id,
                   history, last_total_stake, last_favourites,
                   recovery_target, runner_task, fixed, n_ops>>

\* sleep_for = min(seconds_to_action, 60.0) is slept in chunks of 60 s.
PreOffChunk == 60

\* await self._sleep_chunked(10.0, chunk=10.0) before the first poll
GraceSleep == 10

\* await self._sleep_chunked(20.0, chunk=5.0) in dummy mode
DummyChunk == 5

\* await self._sleep_chunked(10.0, chunk=10.0) after a poll
PollSleep == 10

\* Seconds from now to the advertised start of a market the loop takes up,
\* where time is followed.
SecondsToOff ==
    {130, 45, 20, -5}

IntMin(a, b) ==
    IF a < b THEN a ELSE b

\* seconds_to_off of the market taken: that of the market in hand when the
\* loop comes back to it, otherwise what its start time gives.
StartTime(t, market_id) ==
    IF ~timed
    THEN clock' = clock
    ELSE IF tasks[t].market_id = market_id
    THEN clock' = clock
    ELSE clock' \in SecondsToOff

\* float(self.state.seconds_before_off or 60)
SecondsBeforeOff ==
    IF seconds_before_off = 0 THEN 60 ELSE seconds_before_off

\* seconds_to_action = seconds_to_off - float(seconds_before_off or 60)
seconds_to_action ==
    clock - SecondsBeforeOff

\* if seconds_to_action > 0 (either way where time is not followed)
TooEarly ==
    IF ~timed THEN TRUE ELSE seconds_to_action > 0

Due ==
    IF ~timed THEN TRUE ELSE seconds_to_action <= 0

\* Mutant of SleepFor: the whole wait is slept at once.
SleepFor_Whole ==
    IF ~timed THEN 0 ELSE seconds_to_action

\* sleep_for = min(seconds_to_action, 60.0)
SleepFor ==
    IF ~timed THEN 0 ELSE IntMin(seconds_to_action, PreOffChunk)

\* The time an await asyncio.sleep(s) of task t took: s, or nothing when
\* stop() cancelled it.
Slept(t, s) ==
    IF tasks[t].cancel THEN 0 ELSE s

\* s seconds have passed.
Tick(s) ==
    clock' = IF ~timed THEN clock ELSE clock - s

\* market_id = selected_markets[current_index]; current_market_id = market_id
\* (an index past the end raises IndexError, which nothing catches)
LoopNextMarket(t) ==
    /\ tasks[t].pc = "loop"
    /\ LoopRunning
    /\ ~Exhausted
    /\ IF current_index < Len(selected_markets)
       THEN /\ current_market_id' = selected_markets[current_index + 1]
            /\ SetTask(t, [tasks[t] EXCEPT !.pc = "info",
                                           !.market_id = selected_markets[current_index + 1]])
            /\ Step("market", t)
            /\ StartTime(t, selected_markets[current_index + 1])
       ELSE /\ Finish(t)
            /\ Step("crash", t)
            /\ UNCHANGED <<current_market_id, clock>>
    /\ UNCHANGED <<settings, bank, selected_markets, current_index,
                   running, history, last_total_stake, last_favourites,
                   recovery_target, runner_task, fixed0, n_ops>>

\* Mutant of Skip: the skipped race is recorded as a lost one.
Skip_Records(t, name) ==
    /\ record_auto_result(tasks[t].market_id, FALSE)
    /\ Resume(t, "loop")
    /\ Step(name, t)
    /\ UNCHANGED <<settings, selected_markets, runner_task, fixed, n_ops>>

\* A skip: _advance_market(); continue
Skip(t, name) ==
    /\ advance_market
    /\ Resume(t, "loop")
    /\ Step(name, t)
    /\ UNCHANGED <<settings, bank, selected_markets, running, history,
                   recovery_target, runner_task, fixed, n_ops>>

\* get_market_start_time or get_market_name raises
InfoError(t) ==
    /\ tasks[t].pc = "info"
    /\ Skip(t, "skip_info")

\* get_market_start_time returns None: start_time.tzinfo raises outside the
\* try block and the task ends with that error.
InfoNoStartTime(t) ==
    /\ tasks[t].pc = "info"
    /\ Finish(t)
    /\ Step("crash", t)
    /\ UNCHANGED <<settings, bank, selected_markets, current_index, current_market_id,
                   running, history, last_total_stake, last_favourites,
                   recovery_target, runner_task, fixed, n_ops>>

\* seconds_to_action > 0: await self._sleep_chunked(sleep_for, chunk=60.0)
WaitBeforeOff(t) ==
    /\ tasks[t].pc = "info"
    /\ TooEarly
    /\ SetTask(t, [tasks[t] EXCEPT !.pc = "pre_sleep", !.cancel = FALSE,
                                   !.favs = <<>>, !.sleep_for = SleepFor])
    /\ Step("wait", t)
    /\ UNCHANGED <<settings, bank, selected_markets, current_index, current_market_id,
                   running, history, last_total_stake, last_favourites,
                   recovery_target, runner_task, fixed, n_ops>>

\* The pre-off sleep ends: cancelled (ok is False), stopped, or continue.
PreSleepWake(t) ==
    /\ tasks[t].pc = "pre_sleep"
    /\ Idle
    /\ IF tasks[t].cancel
       THEN Finish(t) /\ Step("cancelled", t)
       ELSE IF ~running
            THEN Finish(t) /\ Step("stopped", t)
            ELSE /\ SetTask(t, [tasks[t] EXCEPT !.pc = "loop", !.sleep_for = 0])
                 /\ Step("recheck", t)
    /\ Tick(Slept(t, tasks[t].sleep_for))
    /\ UNCHANGED <<settings, bank, selected_markets, current_index, current_market_id,
                   running, history, last_total_stake, last_favourites,
                   recovery_target, runner_task, fixed0, n_ops>>

\* seconds_to_action <= 0 and get_top_two_favourites raises
FavouritesError(t) ==
    /\ tasks[t].pc = "info"
    /\ Due
    /\ Skip(t, "skip_favs")

\* seconds_to_action <= 0 and get_top_two_favourites returns favs
GetFavourites(t) ==
    /\ tasks[t].pc = "info"
    /\ Due
    /\ \E favs \in FavLists :
          SetTask(t, [tasks[t] EXCEPT !.pc = "check", !.favs = favs])
    /\ Step("favs", t)
    /\ UNCHANGED <<settings, bank, selected_markets, current_index, current_market_id,
                   running, history, last_total_stake, last_favourites,
                   recovery_target, runner_task, fixed, n_ops>>

\* Mutant of InRange: the upper bound is not tested.
InRange_MinOnly(f) ==
    RLe(min_odds, f.back)

\* Mutant of InRange: the lower bound is not tested.
InRange_MaxOnly(f) ==
    RLe(f.back, max_odds)

\* self.state.min_odds <= float(f["back"]) <= self.state.max_odds
InRange(f) ==
    RLe(min_odds, f.back) /\ RLe(f.back, max_odds)

FavsInRange(favs) ==
    SelectSeq(favs, InRange)

\* len(favs) < 2
SkipFewRunners(t) ==
    /\ tasks[t].pc = "check"
    /\ Len(tasks[t].favs) < 2
    /\ Skip(t, "skip_few")

\* len(favs_in_range) < 2
SkipOddsRange(t) ==
    /\ tasks[t].pc = "check"
    /\ Len(tasks[t].favs) >= 2
    /\ Len(FavsInRange(tasks[t].favs)) < 2
    /\ Skip(t, "skip_range")

\* total_stake of the current race, from the two in-range prices
TotalStake(favs_in_range) ==
    compute_total_stake_for_recovery(bank, stake_percent, recovery_target,
                                     favs_in_range[1].back, favs_in_range[2].back)

\* Mutant of StopNonPositive: the race is skipped and the loop goes on.
StopNonPositive_Skips(t) ==
    /\ tasks[t].pc = "check"
    /\ Len(tasks[t].favs) >= 2
    /\ Len(FavsInRange(tasks[t].favs)) >= 2
    /\ RLe(TotalStake(FavsInRange(tasks[t].favs)), Zero)
    /\ Skip(t, "stop_stake")

\* total_stake <= 0: "Non-positive stake; stopping."
StopNonPositive(t) ==
    /\ tasks[t].pc = "check"
    /\ Len(tasks[t].favs) >= 2
    /\ Len(FavsInRange(tasks[t].favs)) >= 2
    /\ RLe(TotalStake(FavsInRange(tasks[t].favs)), Zero)
    /\ running' = FALSE
    /\ Finish(t)
    /\ Step("stop_stake", t)
    /\ UNCHANGED <<settings, bank, selected_markets, current_index, current_market_id,
                   history, last_total_stake, last_favourites,
                   recovery_target, runner_task, fixed, n_ops>>

\* total_stake, favs_in_range[:2] and calc["profit_each"] as READY works them
\* out; they stay in the frame of _run_loop while it awaits the settlement.
ReadyLocals(favs_in_range) ==
    [total_stake |-> TotalStake(favs_in_range),
     favs |-> SubSeq(favs_in_range, 1, 2),
     profit_each |-> dutch_calc(TotalStake(favs_in_range), favs_in_range[1].back,
                                favs_in_range[2].back).profit_each]

\* READY: the stake record is stored and the settlement wait begins with
\* await self._sleep_chunked(10.0, chunk=10.0)
Ready(t) ==
    /\ tasks[t].pc = "check"
    /\ Len(tasks[t].favs) >= 2
    /\ Len(FavsInRange(tasks[t].favs)) >= 2
    /\ RLt(Zero, TotalStake(FavsInRange(tasks[t].favs)))
    /\ last_total_stake' = TotalStake(FavsInRange(tasks[t].favs))
    /\ last_favourites' = SubSeq(FavsInRange(tasks[t].favs), 1, 2)
    /\ SetTask(t, [tasks[t] EXCEPT !.pc = "grace", !.cancel = FALSE, !.favs = <<>>,
                                   !.ready = ReadyLocals(FavsInRange(tasks[t].favs))])
    /\ Step("ready", t)
    /\ UNCHANGED <<settings, bank, selected_markets, current_index, current_market_id,
                   running, history, recovery_target, runner_task, fixed, n_ops>>

\* ------------------------------------------------------------------------
\* BotRunner._wait_for_settlement_and_record
\* ------------------------------------------------------------------------

\* Mutant of SettlementGuard: the running flag is not tested.
SettlementGuard_MarketOnly(t) ==
    current_market_id # tasks[t].market_id

\* if not self.state.running or self.state.current_market_id != market_id: return
SettlementGuard(t) ==
    ~running \/ current_market_id # tasks[t].market_id

\* sel_ids: the selection ids of state.last_favourites
SelIds ==
    {last_favourites[i].selection_id : i \in 1..Len(last_favourites)}

\* The frame's parts left unchanged by a return to _run_loop's while (the
\* locals of READY are assigned again before they are next read).
ReturnToLoop(t) ==
    SetTask(t, [tasks[t] EXCEPT !.pc = "loop", !.cancel = FALSE,
                                !.sel_ids = {}, !.polls = 0, !.chunks = 0,
                                !.ready = NoReady])

\* The grace sleep ends and the guard returns.
GraceReturn(t) ==
    /\ tasks[t].pc = "grace"
    /\ Idle
    /\ SettlementGuard(t)
    /\ ReturnToLoop(t)
    /\ Step("grace_return", t)
    /\ Tick(Slept(t, GraceSleep))
    /\ UNCHANGED <<settings, bank, selected_markets, current_index, current_market_id,
                   running, history, last_total_stake, last_favourites,
                   recovery_target, runner_task, fixed0, n_ops>>

\* The grace sleep ends: sel_ids is taken and the task goes on to the dummy
\* sleep (20 s in chunks of 5 s) or to the first poll.
GraceDone(t) ==
    /\ tasks[t].pc = "grace"
    /\ Idle
    /\ ~SettlementGuard(t)
    /\ SetTask(t, [tasks[t] EXCEPT !.pc = IF use_dummy THEN "dummy_sleep" ELSE "poll",
                                   !.cancel = FALSE,
                                   !.sel_ids = SelIds,
                                   !.chunks = IF use_dummy THEN 4 ELSE 0,
                                   !.polls = 0])
    /\ Step("settling", t)
    /\ Tick(Slept(t, GraceSleep))
    /\ UNCHANGED <<settings, bank, selected_markets, current_index, current_market_id,
                   running, history, last_total_stake, last_favourites,
                   recovery_target, runner_task, fixed0, n_ops>>

\* _sleep_chunked(20.0, chunk=5.0) goes on sleeping: not cancelled, time
\* remains and the bot is running.
DummySleepOn(t) ==
    /\ tasks[t].pc = "dummy_sleep"
    /\ Idle
    /\ ~tasks[t].cancel
    /\ tasks[t].chunks > 1
    /\ running
    /\ SetTask(t, [tasks[t] EXCEPT !.chunks = @ - 1])
    /\ Step("dummy_chunk", t)
    /\ Tick(DummyChunk)
    /\ UNCHANGED <<settings, bank, selected_markets, current_index, current_market_id,
                   running, history, last_total_stake, last_favourites,
                   recovery_target, runner_task, fixed0, n_ops>>

\* Mutant of DummySleepOver: the dummy sleep returns at once.
DummySleepOver_AtOnce(t) ==
    TRUE

\* _sleep_chunked(20.0, chunk=5.0) returns: cancelled, or out of time, or stopped.
DummySleepOver(t) ==
    tasks[t].cancel \/ tasks[t].chunks <= 1 \/ ~running

\* The dummy sleep is over and the guard returns.
DummyReturn(t) ==
    /\ tasks[t].pc = "dummy_sleep"
    /\ Idle
    /\ DummySleepOver(t)
    /\ SettlementGuard(t)
    /\ ReturnToLoop(t)
    /\ Step("dummy_return", t)
    /\ Tick(Slept(t, DummyChunk))
    /\ UNCHANGED <<settings, bank, selected_markets, current_index, current_market_id,
                   running, history, last_total_stake, last_favourites,
                   recovery_target, runner_task, fixed0, n_ops>>

\* The dummy sleep is over: winner_is_fav = True is recorded.  When
\* _record_auto_result raises (no stored favourites) nothing catches it and
\* the task ends with that error.
DummySettle(t) ==
    /\ tasks[t].pc = "dummy_sleep"
    /\ Idle
    /\ DummySleepOver(t)
    /\ ~SettlementGuard(t)
    /\ IF RecordRaises(TRUE)
       THEN /\ Finish(t)
            /\ Step("crash", t)
            /\ UNCHANGED <<bank, current_index, current_market_id, running, history,
                           last_total_stake, last_favourites, recovery_target>>
       ELSE /\ record_auto_result(tasks[t].market_id, TRUE)
            /\ ReturnToLoop(t)
            /\ Step("won", t)
    /\ Tick(Slept(t, DummyChunk))
    /\ UNCHANGED <<settings, selected_markets, runner_task, fixed0, n_ops>>

\* The top of a poll: the guard returns.
PollReturn(t) ==
    /\ tasks[t].pc = "poll"
    /\ SettlementGuard(t)
    /\ ReturnToLoop(t)
    /\ Step("poll_return", t)
    /\ UNCHANGED <<settings, bank, selected_markets, current_index, current_market_id,
                   running, history, last_total_stake, last_favourites,
                   recovery_target, runner_task, fixed, n_ops>>

\* What get_market_result may return now: where time is followed, the
\* exchange closes a market only after its advertised start.
Results ==
    {res \in MarketResults :
        IF ~timed THEN TRUE ELSE clock < 0 \/ res.status # "CLOSED"}

\* The winner a result names: winner_selection_id, else the WINNER of
\* runner_status; 0 when the market is not CLOSED or names no winner.
Winner(res) ==
    IF res.status # "CLOSED" THEN 0
    ELSE IF res.winner_selection_id # 0 THEN res.winner_selection_id
    ELSE res.runner_winner

\* won = winner in sel_ids if sel_ids else False
Won(winner, sel_ids) ==
    winner \in sel_ids

\* A poll that settles nothing: get_market_result raises, the market is not
\* closed or has no winner yet, or recording raises inside the try block.
\* The iteration ends in await self._sleep_chunked(10.0, chunk=10.0).
PollPending(t) ==
    /\ tasks[t].pc = "poll"
    /\ ~SettlementGuard(t)
    /\ \E res \in Results :
          Winner(res) # 0 => RecordRaises(Won(Winner(res), tasks[t].sel_ids))
    /\ SetTask(t, [tasks[t] EXCEPT !.pc = "poll_sleep"])
    /\ Step("pending", t)
    /\ UNCHANGED <<settings, bank, selected_markets, current_index, current_market_id,
                   running, history, last_total_stake, last_favourites,
                   recovery_target, runner_task, fixed, n_ops>>

\* A poll finds the market closed with a winner: the result is recorded.
PollSettle(t) ==
    /\ tasks[t].pc = "poll"
    /\ ~SettlementGuard(t)
    /\ \E res \in Results :
          LET won == Won(Winner(res), tasks[t].sel_ids)
          IN  /\ Winner(res) # 0
              /\ ~RecordRaises(won)
              /\ record_auto_result(tasks[t].market_id, won)
              /\ op' = [name |-> IF won THEN "won" ELSE "lost", task |-> t,
                        winner |-> Winner(res)]
    /\ ReturnToLoop(t)
    /\ UNCHANGED <<settings, selected_markets, runner_task, fixed, n_ops>>

\* Mutant of PollSleepWake: one poll more than the range before the timeout.
PollSleepWake_OneMore(t) ==
    /\ tasks[t].pc = "poll_sleep"
    /\ Idle
    /\ IF tasks[t].polls + 1 > poll_range
       THEN /\ advance_market
            /\ ReturnToLoop(t)
            /\ Step("timeout", t)
       ELSE /\ SetTask(t, [tasks[t] EXCEPT !.pc = "poll", !.cancel = FALSE,
                                           !.polls = @ + 1])
            /\ Step("poll", t)
            /\ UNCHANGED <<current_index, current_market_id, last_total_stake,
                           last_favourites>>
    /\ Tick(Slept(t, PollSleep))
    /\ UNCHANGED <<settings, bank, selected_markets, running, history,
                   recovery_target, runner_task, fixed0, n_ops>>

\* The sleep that ends a poll is over: the next poll, or after the last one
\* "Settlement timeout; skipping market."
PollSleepWake(t) ==
    /\ tasks[t].pc = "poll_sleep"
    /\ Idle
    /\ IF tasks[t].polls + 1 >= poll_range
       THEN /\ advance_market
            /\ ReturnToLoop(t)
            /\ Step("timeout", t)
       ELSE /\ SetTask(t, [tasks[t] EXCEPT !.pc = "poll", !.cancel = FALSE,
                                           !.polls = @ + 1])
            /\ Step("poll", t)
            /\ UNCHANGED <<current_index, current_market_id, last_total_stake,
                           last_favourites>>
    /\ Tick(Slept(t, PollSleep))
    /\ UNCHANGED <<settings, bank, selected_markets, running, history,
                   recovery_target, runner_task, fixed0, n_ops>>

\* ------------------------------------------------------------------------
\* The specification
\* ------------------------------------------------------------------------

TaskStep(t) ==
    \/ TaskBegin(t)
    \/ LoopFinished(t)
    \/ LoopExhausted(t)
    \/ LoopNextMarket(t)
    \/ InfoError(t)
    \/ InfoNoStartTime(t)
    \/ WaitBeforeOff(t)
    \/ PreSleepWake(t)
    \/ FavouritesError(t)
    \/ GetFavourites(t)
    \/ SkipFewRunners(t)
    \/ SkipOddsRange(t)
    \/ StopNonPositive(t)
    \/ Ready(t)
    \/ GraceReturn(t)
    \/ GraceDone(t)
    \/ DummySleepOn(t)
    \/ DummyReturn(t)
    \/ DummySettle(t)
    \/ PollReturn(t)
    \/ PollPending(t)
    \/ PollSettle(t)
    \/ PollSleepWake(t)

Next ==
    \/ start
    \/ stop
    \/ \E form \in SettingsForms : update_settings(form)
    \/ \E selection \in Selections : update_race_selection(selection)
    \/ \E t \in Slots : TaskStep(t)

Spec ==
    Init /\ [][Next]_vars

\* ------------------------------------------------------------------------
\* The calculator on its own: _dutch_calc and _dutch_stakes applied to
\* arguments drawn from CalcStakes and CalcPrices
\* ------------------------------------------------------------------------

CalcStakes ==
    {Num(1), Num(5), Rat(57, 2), Num(100)}

CalcPrices ==
    {Rat(101, 100), Rat(3, 2), Num(2), Rat(14, 5), Rat(16, 5), Num(4), Num(1000)}

InitCalc ==
    /\ BotInit
    /\ calc_in \in [total_stake : CalcStakes, o1 : CalcPrices, o2 : CalcPrices]
    /\ calc_out = NoCalc

CallDutchCalc ==
    /\ calc_out.fn = None
    /\ calc_out' = [fn |-> "_dutch_calc",
                    result |-> dutch_calc(calc_in.total_stake, calc_in.o1, calc_in.o2)]
    /\ UNCHANGED <<botvars, calc_in>>

CallDutchStakes ==
    /\ calc_out.fn = None
    /\ calc_out' = [fn |-> "_dutch_stakes",
                    result |-> dutch_stakes(calc_in.total_stake, calc_in.o1, calc_in.o2)]
    /\ UNCHANGED <<botvars, calc_in>>

NextCalc ==
    \/ CallDutchCalc
    \/ CallDutchStakes

SpecCalc ==
    InitCalc /\ [][NextCalc]_vars

\* ------------------------------------------------------------------------
\* The settlement poll loop on its own, with its full range: one live-mode
\* task that has stored its stake record on the first selected market and
\* begins to poll, the markets never settling or settling at any poll, and
\* stop() arriving at any sleep
\* ------------------------------------------------------------------------

\* The stake records the task may have stored: 5 % of a bank of 100.
PollFavLists ==
    { <<Fav(1, 2, 1), Fav(2, 4, 1)>>,
      <<Fav(1, 3, 1), Fav(3, 6, 1)>> }

\* The state _wait_for_settlement_and_record is in when its poll loop begins,
\* after start() on a fresh StrategyState with a selection made.
InitPoll ==
    /\ starting_bank = Num(100)
    /\ bank = Num(100)
    /\ stake_percent = Num(5)
    /\ selected_markets \in Selections \ {<<>>}
    /\ current_index = 0
    /\ current_market_id = selected_markets[1]
    /\ seconds_before_off = 60
    /\ min_odds = Rat(101, 100)
    /\ max_odds = Num(1000)
    /\ tick_seconds = 30
    /\ running = TRUE
    /\ history = <<>>
    /\ last_total_stake = Num(5)
    /\ last_favourites \in PollFavLists
    /\ recovery_target = Zero
    /\ tasks = [t \in Slots |->
                  IF t = 1
                  THEN [NoTask EXCEPT !.pc = "poll",
                                      !.market_id = selected_markets[1],
                                      !.sel_ids = SelIds,
                                      !.ready = [total_stake |-> last_total_stake,
                                                 favs |-> last_favourites,
                                                 profit_each |->
                                                     ProfitLoss(TRUE, last_total_stake,
                                                                last_favourites)]]
                  ELSE NoTask]
    /\ runner_task = 1
    /\ use_dummy = FALSE
    /\ poll_range = PollBudget
    /\ timed = FALSE
    /\ clock = 0
    /\ op = [name |-> "settling", task |-> 1]
    /\ n_ops = 2
    /\ calc_in = NoCalc
    /\ calc_out = NoCalc

NextPoll ==
    \/ stop
    \/ \E t \in Slots : PollReturn(t)
    \/ \E t \in Slots : PollPending(t)
    \/ \E t \in Slots : PollSettle(t)
    \/ \E t \in Slots : PollSleepWake(t)

SpecPoll ==
    InitPoll /\ [][NextPoll]_vars

\* ------------------------------------------------------------------------
\* One run of the loop with time followed: start() has just been called on
\* a fresh StrategyState with a selection made; every market taken up has
\* its advertised start some seconds away, each sleep takes its length,
\* settings may be saved and stop() may arrive at any sleep
\* ------------------------------------------------------------------------

InitClock ==
    /\ starting_bank = Num(100)
    /\ bank = Num(100)
    /\ stake_percent = Num(5)
    /\ selected_markets \in Selections \ {<<>>}
    /\ current_index = 0
    /\ current_market_id = None
    /\ seconds_before_off = 60
    /\ min_odds = Rat(101, 100)
    /\ max_odds = Num(1000)
    /\ tick_seconds = 30
    /\ running = TRUE
    /\ history = <<>>
    /\ last_total_stake = Zero
    /\ last_favourites = <<>>
    /\ recovery_target = Zero
    /\ tasks = [t \in Slots |-> IF t = 1 THEN [NoTask EXCEPT !.pc = "new"] ELSE NoTask]
    /\ runner_task = 1
    /\ use_dummy \in BOOLEAN
    /\ poll_range = PollLimit
    /\ timed = TRUE
    /\ clock = 0
    /\ op = [name |-> "start", task |-> 0]
    /\ n_ops = 2
    /\ calc_in = NoCalc
    /\ calc_out = NoCalc

NextClock ==
    \/ stop
    \/ \E form \in SettingsForms : update_settings(form)
    \/ \E t \in Slots : TaskStep(t)

SpecClock ==
    InitClock /\ [][NextClock]_vars

\* ------------------------------------------------------------------------
\* One run of the loop with time followed, under fairness: a task that can
\* take a step eventually takes one (time advances, so every sleep ends, and
\* every call of the client returns or raises)
\* ------------------------------------------------------------------------

\* Some task can take a step: it is between two awaits, or it is suspended
\* in an await and the event loop is free to resume it.
CanStep ==
    \E t \in Slots : Live(t) /\ (tasks[t].pc \in Suspended => Idle)

\* A task has taken a step.
TaskMoved ==
    op'.task \in Slots

\* The steps of a task other than those that work out a stake or record a
\* result.
LightStep(t) ==
    \/ TaskBegin(t)
    \/ LoopFinished(t)
    \/ LoopExhausted(t)
    \/ LoopNextMarket(t)
    \/ InfoError(t)
    \/ InfoNoStartTime(t)
    \/ WaitBeforeOff(t)
    \/ PreSleepWake(t)
    \/ FavouritesError(t)
    \/ GetFavourites(t)
    \/ SkipFewRunners(t)
    \/ SkipOddsRange(t)
    \/ GraceReturn(t)
    \/ GraceDone(t)
    \/ DummySleepOn(t)
    \/ DummyReturn(t)
    \/ PollReturn(t)
    \/ PollPending(t)
    \/ PollSleepWake(t)

\* Weak fairness of the tasks' steps: of all of them, with the enabling
\* condition written as CanStep, and of the light ones as TLC evaluates it.
TaskFairness ==
    /\ \/ []<>(~CanStep)
       \/ []<><<TaskMoved>>_vars
    /\ WF_vars(\E t \in Slots : LightStep(t))

SpecLive ==
    /\ InitClock
    /\ [][NextClock]_vars
    /\ TaskFairness

\* ------------------------------------------------------------------------
\* Order placement: the client that declares modes (the first BetfairClient
\* of src/betfair_client.py) is built from its argument and the environment,
\* and place_dutch_bets is called on it once, at any moment of a run of the
\* loop
\* ------------------------------------------------------------------------

\* The `mode` argument of BetfairClient(...): absent, or a text.
ModeArgs ==
    {None, "live", " Live ", "simulation", "paper"}

\* os.getenv("BOT_MODE"): unset, or a text.
EnvModes ==
    {None, "live"}

\* os.getenv("ALLOW_LIVE_BETS"): unset, or a text.
EnvFlags ==
    {None, "true", " TRUE ", "false"}

\* str.strip().lower() on the texts above.
StripLower(s) ==
    CASE s = " Live " -> "live"
      [] s = " TRUE " -> "true"
      [] OTHER -> s

\* BetfairClient.__init__: the fields that guard order placement.
BetfairClient(mode_arg, env_mode, env_flag) ==
    LET raw  == IF mode_arg = None
                THEN (IF env_mode = None THEN "dummy" ELSE env_mode)
                ELSE mode_arg
        m    == StripLower(raw)
        flag == IF env_flag = None THEN "false" ELSE env_flag
    IN  [mode |-> IF m \notin {"dummy", "simulation", "live"} THEN "dummy" ELSE m,
         allow_live_bets |-> StripLower(flag) = "true"]

\* The arguments of the one call.
OrderMarket ==
    "m1"

OrderBets ==
    <<[selectionId |-> 1, side |-> "BACK", size |-> Num(5), price |-> Num(2)]>>

\* _rpc / _rpc_common: no request leaves in dummy mode; otherwise the request
\* is sent and either answered or refused (a RuntimeError).
rpc(self, method, market_id, bets, answered) ==
    IF self.mode = "dummy"
    THEN [sent |-> <<>>, raised |-> TRUE]
    ELSE [sent |-> <<[method |-> method, marketId |-> market_id,
                      instructions |-> Len(bets)]>>,
          raised |-> ~answered]

place_dutch_bets_NoFlag(self, market_id, bets, answered) ==
    IF self.mode \in {"dummy", "simulation"}
    THEN [placed |-> FALSE, blocked |-> FALSE, raised |-> FALSE, sent |-> <<>>]
    ELSE LET res == rpc(self, "placeOrders", market_id, bets, answered)
         IN  [placed |-> ~res.raised, blocked |-> FALSE,
              raised |-> res.raised, sent |-> res.sent]

\* BetfairClient.place_dutch_bets: what it returns (placed, blocked), whether
\* it raised, and the remote calls it made.
place_dutch_bets(self, market_id, bets, answered) ==
    IF self.mode \in {"dummy", "simulation"}
    THEN [placed |-> FALSE, blocked |-> FALSE, raised |-> FALSE, sent |-> <<>>]
    ELSE IF self.mode = "live" /\ ~self.allow_live_bets
    THEN [placed |-> FALSE, blocked |-> TRUE, raised |-> FALSE, sent |-> <<>>]
    ELSE LET res == rpc(self, "placeOrders", market_id, bets, answered)
         IN  [placed |-> ~res.raised, blocked |-> FALSE,
              raised |-> res.raised, sent |-> res.sent]

\* start() has just been called on a fresh StrategyState in which two races
\* are selected.
Started ==
    /\ starting_bank = Num(100)
    /\ bank = Num(100)
    /\ stake_percent = Num(5)
    /\ selected_markets = <<"m1", "m2">>
    /\ current_index = 0
    /\ current_market_id = None
    /\ seconds_before_off = 60
    /\ min_odds = Rat(101, 100)
    /\ max_odds = Num(1000)
    /\ tick_seconds = 30
    /\ running = TRUE
    /\ history = <<>>
    /\ last_total_stake = Zero
    /\ last_favourites = <<>>
    /\ recovery_target = Zero
    /\ tasks = [t \in Slots |-> IF t = 1 THEN [NoTask EXCEPT !.pc = "new"] ELSE NoTask]
    /\ runner_task = 1
    /\ use_dummy \in BOOLEAN
    /\ poll_range = PollLimit
    /\ timed = FALSE
    /\ clock = 0
    /\ op = [name |-> "start", task |-> 0]
    /\ n_ops = 2

InitOrders ==
    /\ Started
    /\ calc_in \in [mode : ModeArgs, BOT_MODE : EnvModes,
                    ALLOW_LIVE_BETS : EnvFlags, answered : BOOLEAN]
    /\ calc_out = NoCalc

\* Some caller builds the client and calls place_dutch_bets.
CallPlaceDutchBets ==
    /\ calc_out.fn = None
    /\ LET self == BetfairClient(calc_in.mode, calc_in.BOT_MODE, calc_in.ALLOW_LIVE_BETS)
       IN  calc_out' = [fn |-> "place_dutch_bets",
                        self |-> self,
                        result |-> place_dutch_bets(self, OrderMarket, OrderBets,
                                                    calc_in.answered)]
    /\ UNCHANGED <<botvars, calc_in>>

NextOrders ==
    \/ CallPlaceDutchBets
    \/ stop
    \/ \E form \in SettingsForms : update_settings(form)
    \/ \E t \in Slots : TaskStep(t)

SpecOrders ==
    InitOrders /\ [][NextOrders]_vars

\* ------------------------------------------------------------------------
\* The dashboard: GET / beside a run of the loop. render_dashboard looks up
\* the account funds and shows them with the paper bank
\* ------------------------------------------------------------------------

\* A dictionary entry that may be missing: funds.get(key).
Key(ok, val) ==
    [ok |-> ok, val |-> val]

NoKey ==
    Key(FALSE, 0)

\* What client.get_account_funds() may give: an exception, the dummy
\* dictionary, an exchange answer with a balance, with a zero balance, or
\* without the field (amounts in whole pounds).
FundsAnswers ==
    {[raised |-> TRUE, availableToBetBalance |-> NoKey, available_to_bet |-> NoKey],
     [raised |-> FALSE, availableToBetBalance |-> NoKey, available_to_bet |-> Key(TRUE, 1000)],
     [raised |-> FALSE, availableToBetBalance |-> Key(TRUE, 500), available_to_bet |-> NoKey],
     [raised |-> FALSE, availableToBetBalance |-> Key(TRUE, 0), available_to_bet |-> NoKey],
     [raised |-> FALSE, availableToBetBalance |-> NoKey, available_to_bet |-> NoKey]}

\* Python truth of funds.get(key): present and not zero.
Truthy(k) ==
    k.ok /\ k.val # 0

\* bf_balance = _safe_float(a or ... or d): the first truthy entry, else the
\* last one; float(None) raises and gives None.
BfBalance(funds) ==
    IF funds.raised
    THEN NoKey
    ELSE IF Truthy(funds.availableToBetBalance)
    THEN funds.availableToBetBalance
    ELSE IF funds.available_to_bet.ok
    THEN funds.available_to_bet
    ELSE NoKey

\* render_dashboard: what the page shows of the funds and of the state.
render_dashboard(funds) ==
    [bf_balance |-> BfBalance(funds),
     bf_err |-> funds.raised,
     bank |-> bank,
     running |-> running,
     races |-> Len(history)]

home_SyncBank(funds) ==
    /\ Request("home")
    /\ calc_out' = [fn |-> "render_dashboard", page |-> render_dashboard(funds)]
    /\ bank' = IF BfBalance(funds).ok THEN Num(BfBalance(funds).val) ELSE bank
    /\ UNCHANGED <<settings, selected_markets, current_index, current_market_id,
                   running, history, last_total_stake, last_favourites,
                   recovery_target, tasks, runner_task,
                   use_dummy, poll_range, timed, clock, calc_in>>

\* GET /: home -> render_dashboard. It writes no field of the state.
home(funds) ==
    /\ Request("home")
    /\ calc_out' = [fn |-> "render_dashboard", page |-> render_dashboard(funds)]
    /\ UNCHANGED <<settings, bank, selected_markets, current_index, current_market_id,
                   running, history, last_total_stake, last_favourites,
                   recovery_target, tasks, runner_task,
                   use_dummy, poll_range, timed, clock, calc_in>>

InitFunds ==
    /\ Started
    /\ calc_in = NoCalc
    /\ calc_out = NoCalc

NextFunds ==
    \/ \E funds \in FundsAnswers : home(funds)
    \/ stop
    \/ \E form \in SettingsForms : update_settings(form)
    \/ \E t \in Slots : TaskStep(t)

SpecFunds ==
    InitFunds /\ [][NextFunds]_vars

\* ------------------------------------------------------------------------
\* Betting on its own: the bot with selection, start and stop but no settings
\* request, so that the bank changes through recorded outcomes only; the
\* bank and the stake percentage it starts from are those a settings request
\* made earlier may have left
\* ------------------------------------------------------------------------

BankStarts ==
    {Zero, Num(100)}

StakePercents ==
    {Num(5), Num(50)}

InitBank ==
    /\ starting_bank = Num(100)
    /\ bank \in BankStarts
    /\ stake_percent \in StakePercents
    /\ selected_markets = <<>>
    /\ current_index = 0
    /\ current_market_id = None
    /\ seconds_before_off = 60
    /\ min_odds = Rat(101, 100)
    /\ max_odds = Num(1000)
    /\ tick_seconds = 30
    /\ running = FALSE
    /\ history = <<>>
    /\ last_total_stake = Zero
    /\ last_favourites = <<>>
    /\ recovery_target = Zero
    /\ tasks = [t \in Slots |-> NoTask]
    /\ runner_task = 0
    /\ use_dummy \in BOOLEAN
    /\ poll_range = PollLimit
    /\ timed = FALSE
    /\ clock = 0
    /\ op = [name |-> "init", task |-> 0]
    /\ n_ops = 0
    /\ calc_in = NoCalc
    /\ calc_out = NoCalc

NextBank ==
    \/ start
    \/ stop
    \/ \E selection \in Selections : update_race_selection(selection)
    \/ \E t \in Slots : TaskStep(t)

SpecBank ==
    InitBank /\ [][NextBank]_vars

\* ------------------------------------------------------------------------
\* The live-odds preview: GET /api/selected_live_odds works out, for the two
\* favourites of a selected race, the stakes "the bot would place next"
\* ------------------------------------------------------------------------

\* getattr(state, "loss_carry", 0.0): StrategyState has no such attribute.
LossCarryAttr ==
    Zero

\* The row of api_selected_live_odds for the favourites favs (two or more
\* priced runners), from the state as it is.
selected_live_odds_row(favs) ==
    LET bk == OrDefault(bank, Num(100))
        sp == OrDefault(stake_percent, Num(5))
        base_stake == RMax(Zero, RMul(bk, RDiv(sp, Num(100))))
        mn == OrDefault(min_odds, Rat(101, 100))
        mx == OrDefault(max_odds, Num(1000))
        o1 == favs[1].back
        o2 == favs[2].back
    IN  IF ~(RLe(mn, o1) /\ RLe(o1, mx) /\ RLe(mn, o2) /\ RLe(o2, mx))
        THEN [note |-> "Odds out of range", total_stake |-> Zero,
              stake1 |-> Zero, stake2 |-> Zero, profit_if_win |-> Zero]
        ELSE LET loss_carry == LossCarryAttr
                 inv_sum == InvSum(o1, o2)
                 denom == RSub(RDiv(Num(1), inv_sum), Num(1))
                 total_stake == IF RLt(Zero, loss_carry) /\ RLt(Zero, denom)
                                THEN RMax(base_stake, RDiv(loss_carry, denom))
                                ELSE base_stake
                 s1 == RDiv(RMul(total_stake, RDiv(Num(1), o1)), inv_sum)
             IN  [note |-> "OK", total_stake |-> total_stake,
                  stake1 |-> s1, stake2 |-> RSub(total_stake, s1),
                  profit_if_win |-> RSub(RDiv(total_stake, inv_sum), total_stake)]

\* ------------------------------------------------------------------------
\* Sessions: every request carries request.session.get("user"), and each
\* handler starts with require_login
\* ------------------------------------------------------------------------

\* request.session.get("user"): the logged-in user, somebody else, or no
\* session.
Sessions ==
    {"admin", "guest", None}

\* Mutant of is_logged_in: any session passes.
is_logged_in_Any(user) ==
    user \in Sessions

is_logged_in(user) ==
    user = "admin"

\* require_login: the redirect to /login, or None.
require_login(user) ==
    IF ~is_logged_in(user)
    THEN [ok |-> TRUE, val |-> 303]
    ELSE [ok |-> FALSE, val |-> 0]

\* return redirect: the request is answered with 303 and nothing else is done.
ReturnRedirect(name, redirect) ==
    /\ Idle
    /\ n_ops < MaxOps
    /\ n_ops' = n_ops + 1
    /\ op' = [name |-> name, task |-> 0, status |-> redirect.val]
    /\ UNCHANGED <<settings, bank, selected_markets, current_index,
                   current_market_id, running, history, last_total_stake,
                   last_favourites, recovery_target, tasks, runner_task, fixed,
                   calc_in, calc_out>>

\* POST /start
start_bot(user) ==
    IF require_login(user).ok
    THEN ReturnRedirect("start", require_login(user))
    ELSE start /\ UNCHANGED <<calc_in, calc_out>>

\* POST /stop
stop_bot(user) ==
    IF require_login(user).ok
    THEN ReturnRedirect("stop", require_login(user))
    ELSE stop /\ UNCHANGED <<calc_in, calc_out>>

\* POST /update_settings, with its session
post_update_settings(user, form) ==
    IF require_login(user).ok
    THEN ReturnRedirect("update_settings", require_login(user))
    ELSE update_settings(form) /\ UNCHANGED <<calc_in, calc_out>>

\* POST /update_race_selection, with its session
post_update_race_selection(user, selection) ==
    IF require_login(user).ok
    THEN ReturnRedirect("update_race_selection", require_login(user))
    ELSE update_race_selection(selection) /\ UNCHANGED <<calc_in, calc_out>>

NextSession ==
    \/ \E user \in Sessions : start_bot(user)
    \/ \E user \in Sessions : stop_bot(user)
    \/ \E user \in Sessions, form \in SettingsForms :
           post_update_settings(user, form)
    \/ \E user \in Sessions, selection \in Selections :
           post_update_race_selection(user, selection)
    \/ \E t \in Slots : TaskStep(t)

SpecSession ==
    Init /\ [][NextSession]_vars

\* ------------------------------------------------------------------------
\* Properties
\* ------------------------------------------------------------------------

LastEntry ==
    history[Len(history)]

\* The two prices of the stored stake record.
LastO1 ==
    last_favourites[1].back

LastO2 ==
    last_favourites[2].back

\* C1: after any recorded win, whatever the state before it, the loss carry
\* (recovery_target) is 0 and the day is done (running is False).
C1_WinResetsRecovery ==
    op.name = "won" => recovery_target = Zero /\ ~running

\* A win recorded right after a loss, that is with a positive carry before it.
C1_Witness ==
    /\ op.name = "won"
    /\ Len(history) >= 2
    /\ ~history[Len(history) - 1].won
    /\ RLt(Zero, history[Len(history) - 1].recovery_target_after)

\* C2: a recorded loss with total stake S takes exactly S from the bank, adds
\* exactly S to the loss carry, appends exactly one history entry and moves
\* current_index on by exactly one.
C2_LossAccounting ==
    [][op'.name = "lost" =>
          /\ bank' = RSub(bank, last_total_stake)
          /\ recovery_target' = RAdd(recovery_target, last_total_stake)
          /\ Len(history') = Len(history) + 1
          /\ SubSeq(history', 1, Len(history)) = history
          /\ current_index' = current_index + 1]_vars

\* The example of the claim: bank 100, carry 0, a lost stake of 10.
C2_Witness ==
    /\ op.name = "lost"
    /\ Len(history) = 1
    /\ LastEntry.total_stake = Num(10)
    /\ bank = Num(90)
    /\ recovery_target = Num(10)

\* The daily loss limit C3 speaks of.  StrategyState has no such field: the
\* value stands for any positive limit.
DailyLossLimit ==
    Num(5)

C4_NoStakeWhenDone ==
    [][/\ op'.name = "ready" =>
             /\ running
             /\ current_index < Len(selected_markets)
             /\ current_market_id = selected_markets[current_index + 1]
       /\ (~running /\ running') => op'.name = "start"]_vars

\* A stake computed after a day that a win had ended: staking has resumed.
C4_Witness ==
    /\ op.name = "ready"
    /\ Len(history) >= 1
    /\ LastEntry.won

\* C5: no result is recorded while running is False: from such a state the
\* history does not change, and the bank changes only by update_settings.
C5_NoRecordAfterDone ==
    [][/\ op'.name \in {"won", "lost"} => running
       /\ ~running => /\ history' = history
                      /\ bank' # bank => op'.name = "update_settings"]_vars

\* A poll that finds the bot stopped while its stake is still stored, and
\* returns without recording.
C5_Witness ==
    /\ op.name = "poll_return"
    /\ ~running
    /\ RLt(Zero, last_total_stake)
    /\ current_market_id = selected_markets[current_index + 1]

\* C6 as claimed: a win recorded after one or more losses in a row, that is
\* with a positive loss carry, credits a profit of at least that carry.  The
\* prices are taken with inv_sum < 1, where a profit is possible at all, so
\* that the violation owes nothing to stakes on infeasible prices (C9).
C6_WinRecoversCarry ==
    [][(/\ op'.name = "won"
        /\ RLt(Zero, recovery_target)
        /\ RLt(InvSum(LastO1, LastO2), Num(1)))
          => RLe(recovery_target, RSub(bank', bank))]_vars

\* The profit of the largest stake the safety cap allows on the prices.
CappedProfit(bk, o1, o2) ==
    RMul(RMul(bk, RDiv(Num(max_recovery_stake_percent), Num(100))),
         RSub(RDiv(Num(1), InvSum(o1, o2)), Num(1)))

\* C6 as amended: every stake computed projects a profit of at least the
\* smaller of the loss carry and the profit of the largest stake the safety
\* cap allows (bank * 30 % * (1 / inv_sum - 1)), and a recorded win credits
\* exactly the projected profit of the stored stake.
C6_WinRecoversUpToCap ==
    [][/\ op'.name = "ready" =>
            LET o1 == last_favourites'[1].back
                o2 == last_favourites'[2].back
            IN  RLe(RMin(recovery_target, CappedProfit(bank, o1, o2)),
                    RSub(RMul(last_total_stake', RDiv(Num(1), InvSum(o1, o2))),
                         last_total_stake'))
       /\ op'.name = "won" =>
            RSub(bank', bank) =
                RSub(RMul(last_total_stake, RDiv(Num(1), InvSum(LastO1, LastO2))),
                     last_total_stake)]_vars

\* A win after a loss whose profit is at least the carry left by the loss.
C6_Witness ==
    /\ op.name = "won"
    /\ Len(history) >= 2
    /\ ~history[Len(history) - 1].won
    /\ RLt(Zero, history[Len(history) - 1].recovery_target_after)
    /\ RLe(history[Len(history) - 1].recovery_target_after, LastEntry.pl)

\* C7: for every stake computed, stake1 + stake2 is the total stake, and the
\* total exceeds neither the bank nor, when positive, the safety cap
\* bank * max_recovery_stake_percent / 100.
C7_StakeWithinCaps ==
    op.name = "ready" =>
        LET calc == dutch_calc(last_total_stake, LastO1, LastO2)
            cap == RMul(bank, RDiv(Num(max_recovery_stake_percent), Num(100)))
        IN  /\ RAdd(calc.stake1, calc.stake2) = last_total_stake
            /\ RLe(last_total_stake, bank)
            /\ RLt(Zero, cap) => RLe(last_total_stake, cap)

\* A stake that the safety cap has cut: it equals the cap and is less than
\* the stake required for the recovery target.
C7_Witness ==
    /\ op.name = "ready"
    /\ last_total_stake = RMul(bank, RDiv(Num(max_recovery_stake_percent), Num(100)))
    /\ RLt(last_total_stake, RequiredStake(recovery_target, LastO1, LastO2))

\* The calculator was applied to prices above 1 with inv_sum < 1 and a
\* positive stake.
CalcFeasible ==
    /\ calc_out.fn # None
    /\ RLt(Num(1), calc_in.o1)
    /\ RLt(Num(1), calc_in.o2)
    /\ RLt(InvSum(calc_in.o1, calc_in.o2), Num(1))
    /\ RLt(Zero, calc_in.total_stake)

\* C8: for prices above 1 with inv_sum < 1 and a positive stake, the stakes
\* returned give the same net profit whichever favourite wins, and it is the
\* reported profit_each.
C8_DutchEqualProfit ==
    CalcFeasible =>
        LET r == calc_out.result
        IN  /\ RSub(RMul(r.stake1, RSub(calc_in.o1, Num(1))), r.stake2) = r.profit_each
            /\ RSub(RMul(r.stake2, RSub(calc_in.o2, Num(1))), r.stake1) = r.profit_each

\* _dutch_calc applied to unequal feasible prices, with a positive profit.
C8_Witness ==
    /\ CalcFeasible
    /\ calc_out.fn = "_dutch_calc"
    /\ calc_in.o1 # calc_in.o2
    /\ RLt(Zero, calc_out.result.profit_each)

\* C9 as claimed: no stake is computed (READY) on prices with inv_sum >= 1.
C9_InfeasibleNotStaked ==
    op.name = "ready" => RLt(InvSum(LastO1, LastO2), Num(1))

\* C10: when one of the two favourite prices fetched lies outside
\* [min_odds, max_odds], the race is skipped and no stake record is stored.
C10_OutOfRangeSkipped ==
    [][LET t == op'.task
       IN  (/\ t # 0
            /\ tasks[t].pc = "check"
            /\ Len(tasks[t].favs) >= 2
            /\ \E i \in 1..2 : \/ RLt(tasks[t].favs[i].back, min_odds)
                               \/ RLt(max_odds, tasks[t].favs[i].back))
           => /\ op'.name = "skip_range"
              /\ last_total_stake' = Zero
              /\ last_favourites' = <<>>
              /\ current_index' = current_index + 1
              /\ history' = history]_vars

\* A race skipped under the range [3/2, 4]: every favourite list offered has
\* at most one price outside it, so one price in range did not save the race.
C10_Witness ==
    /\ op.name = "skip_range"
    /\ min_odds = Rat(3, 2)
    /\ max_odds = Num(4)

\* C11: no stake is computed from a price <= 1.0.  In every configuration of
\* the odds bounds min_odds is above 1; every stake record stored has both
\* prices above 1; and a race whose fetched favourites include a price <= 1
\* is skipped with a zero stake and no favourites stored, before any 1 / price
\* is evaluated.
C11_NoStakeFromInvalidPrice ==
    [][/\ RLt(Num(1), min_odds')
       /\ op'.name = "ready" =>
             /\ RLt(Num(1), last_favourites'[1].back)
             /\ RLt(Num(1), last_favourites'[2].back)
       /\ LET t == op'.task
          IN  (/\ t # 0
               /\ tasks[t].pc = "check"
               /\ Len(tasks[t].favs) >= 2
               /\ \E i \in 1..2 : RLe(tasks[t].favs[i].back, Num(1)))
              => /\ op'.name = "skip_range"
                 /\ last_total_stake' = Zero
                 /\ last_favourites' = <<>>]_vars

\* A race skipped after /update_settings was sent min_odds = 0.5: the bounds
\* are 1.01 .. 1.01 and not the 0.5 .. 1.0 of the form, which would have let a
\* price of 1.0 through.
C11_Witness ==
    /\ op.name = "skip_range"
    /\ min_odds = Rat(101, 100)
    /\ max_odds = Rat(101, 100)

\* A stake record was just stored for prices with inv_sum < 1.
ReadyFeasible ==
    /\ op.name = "ready"
    /\ RLt(InvSum(LastO1, LastO2), Num(1))

\* 1 / inv_sum - 1 of the stored prices: the profit per unit staked.
LastProfitRate ==
    RSub(RDiv(Num(1), InvSum(LastO1, LastO2)), Num(1))

\* The base target: the profit of the base stake bank * stake_percent / 100.
BaseTarget ==
    RMul(RMul(bank, RDiv(stake_percent, Num(100))), LastProfitRate)

NonPositiveStake(t) ==
    /\ t # 0
    /\ tasks[t].pc = "check"
    /\ Len(tasks[t].favs) >= 2
    /\ Len(FavsInRange(tasks[t].favs)) >= 2
    /\ RLe(TotalStake(FavsInRange(tasks[t].favs)), Zero)

C14_NoUnhandledError ==
    op.name # "crash"

\* The steps by which the loop skips a race: the market info raised, the
\* prices raised, fewer than two priced runners, odds out of range.
SkipSteps ==
    {"skip_info", "skip_favs", "skip_few", "skip_range"}

\* C15: every skip advances current_index by exactly one and leaves the bank,
\* the loss carry (recovery_target) and the history unchanged.
C15_SkipIsNotALoss ==
    [][op'.name \in SkipSteps =>
          /\ current_index' = current_index + 1
          /\ bank' = bank
          /\ recovery_target' = recovery_target
          /\ history' = history]_vars

\* The second race skipped for want of two priced runners, after the first
\* was lost: the bank and the carry are still those the loss left.
C15_Witness ==
    /\ op.name = "skip_few"
    /\ current_index = 2
    /\ Len(history) = 1
    /\ ~history[1].won
    /\ RLt(Zero, recovery_target)
    /\ recovery_target = history[1].recovery_target_after
    /\ bank = history[1].bank_after

\* C16: the poll loop makes at most PollBudget (360) polls; when none of them
\* finds the market closed with a winner, the wake from the sleep after the
\* last poll gives up: current_index advances by one, the bank, the loss
\* carry and the history are unchanged, running is unchanged (the bot keeps
\* running unless stop() came in the meantime) and the task is back at the
\* top of the loop.
C16_PollBudgetThenSkip ==
    [][/\ \A t \in Slots : tasks'[t].polls < PollBudget
       /\ op'.name = "timeout" =>
             LET t == op'.task
             IN  /\ tasks[t].polls + 1 = PollBudget
                 /\ tasks'[t].pc = "loop"
                 /\ current_index' = current_index + 1
                 /\ running' = running
                 /\ UNCHANGED <<bank, recovery_target, history>>]_vars

\* The settlement wait timed out with the bot still running: nothing is
\* recorded and the loop is about to go on with the next race.
C16_Witness ==
    /\ op.name = "timeout"
    /\ running
    /\ current_index = 1
    /\ history = <<>>
    /\ bank = Num(100)
    /\ recovery_target = Zero
    /\ tasks[op.task].pc = "loop"

\* The selections of the stake record being settled.
StakedIds ==
    {last_favourites[i].selection_id : i \in 1..Len(last_favourites)}

\* C17 as claimed: when a poll obtains a settlement result, the race is
\* recorded as won if and only if the winner it names is one of the two
\* favourites of the stake record being settled, and otherwise as lost with a
\* profit/loss of minus the total stake.
C17_WonIffStakedFavouriteWins ==
    [][("winner" \in DOMAIN op') =>
          /\ (op'.name = "won") <=> (op'.winner \in StakedIds)
          /\ op'.name = "lost" =>
                /\ history'[Len(history')].pl = RNeg(last_total_stake)
                /\ bank' = RSub(bank, last_total_stake)]_vars

\* C18: a loop iteration that finds current_index at or past the end of
\* selected_markets ends the day (running False, the loop task finished,
\* nothing else changed); any other iteration takes
\* selected_markets[current_index], an index within the list.
C18_ExhaustionEndsDay ==
    [][LET t == op'.task
       IN  (t # 0 /\ tasks[t].pc = "loop" /\ running) =>
              IF current_index >= Len(selected_markets)
              THEN /\ op'.name = "exhausted"
                   /\ ~running'
                   /\ tasks'[t].pc = "done"
                   /\ UNCHANGED <<current_index, selected_markets, bank, history>>
              ELSE /\ op'.name = "market"
                   /\ current_index + 1 \in DOMAIN selected_markets
                   /\ current_market_id' = selected_markets[current_index + 1]]_vars

\* The day ended by exhaustion after the last selected race was lost.
C18_Witness ==
    /\ op.name = "exhausted"
    /\ ~running
    /\ current_index = Len(selected_markets)
    /\ Len(history) >= 1
    /\ ~LastEntry.won
    /\ tasks[op.task].pc = "done"

\* C19: while the bot runs, current_index only moves forward, one position
\* at a time.
C19_IndexOnlyForward ==
    [][(running /\ running') =>
          current_index' \in {current_index, current_index + 1}]_vars

\* The markets of the history entries, in order.
RecordedMarkets ==
    [i \in 1..Len(history) |-> history[i].market_id]

\* C20: every step leaves the existing history entries as they are (same
\* entries, same order), appends at most one entry, and an appended entry is
\* for a race that has no entry yet.
C20_HistoryAppendOnlyWriteOnce ==
    [][/\ Len(history') \in {Len(history), Len(history) + 1}
       /\ SubSeq(history', 1, Len(history)) = history
       /\ Len(history') > Len(history) =>
             \A i \in 1..Len(history) :
                 RecordedMarkets[i] # history'[Len(history')].market_id]_vars

\* The steps that record a race outcome.
OutcomeSteps ==
    {"won", "lost"}

\* C21: the bank changes only in a step that records a race outcome or in
\* /update_settings; every other step leaves it unchanged; a step that
\* records an outcome appends exactly one history entry whose pl is the
\* change of the bank and whose bank_after is the new bank.
C21_BankChangesOnlyByOutcomeOrSettings ==
    [][/\ op'.name \notin OutcomeSteps \cup {"update_settings"} => bank' = bank
       /\ op'.name \in OutcomeSteps =>
             /\ Len(history') = Len(history) + 1
             /\ history'[Len(history')].pl = RSub(bank', bank)
             /\ history'[Len(history')].bank_after = bank'
       /\ Len(history') # Len(history) => op'.name \in OutcomeSteps]_vars

\* A loss and then a win were recorded: the bank went 100 -> 95 -> above 95.
C21_Witness ==
    /\ op.name = "won"
    /\ Len(history) = 2
    /\ ~history[1].won
    /\ history[1].bank_after = RAdd(Num(100), history[1].pl)
    /\ RLt(Zero, history[2].pl)
    /\ bank = RAdd(history[1].bank_after, history[2].pl)

\* A start() that starts the bot: it was not running and races are selected.
Starts ==
    op'.name = "start" /\ ~running /\ selected_markets # <<>>

ActiveLoops ==
    {t \in Slots : Live(t) /\ ~tasks[t].cancel}

\* C23: at most one loop is live and processing markets (a loop that stop()
\* cancelled counts until its next wake-up only as a loop about to end).
C23_SingleLoop ==
    Cardinality(ActiveLoops) <= 1

\* The places where a loop is suspended in a sleep.
Sleeping ==
    {"pre_sleep", "grace", "dummy_sleep", "poll_sleep"}

\* C24: no single sleep of the loop takes more than 60 s (the pre-off sleep
\* is at most 60 s long and no step lets more than 60 s pass), and while
\* the bot is stopped a loop that wakes up never goes to sleep again: its
\* steps lead to the end of the task, from the pre-off wait, the settlement
\* grace, the dummy sleep and the poll sleep alike.
C24_StopObservedWithinOneChunk ==
    [][LET t == op'.task
       IN  t # 0 =>
             /\ tasks'[t].pc = "pre_sleep" => tasks'[t].sleep_for \in 1..60
             /\ op'.name # "market" => clock - clock' \in 0..60
             /\ ~running => tasks'[t].pc \notin Sleeping
             /\ (~running /\ tasks'[t].pc \in Suspended) => tasks'[t].pc = "done"]_vars

\* stop() arrived while the loop slept in the settlement wait of a staked
\* race, and the loop has ended.
C24_Witness ==
    /\ op.name = "finished"
    /\ ~running
    /\ RLt(Zero, last_total_stake)
    /\ current_market_id # None
    /\ history = <<>>
    /\ \A t \in Slots : tasks[t].pc = "done"

\* The bot is stopped: running is False and no loop is left.
Stopped ==
    ~running /\ \A t \in Slots : tasks[t].pc = "done"

\* A stake record is stored for the current market.
StakePending ==
    /\ RLt(Zero, last_total_stake)
    /\ last_favourites # <<>>
    /\ current_market_id # None

\* C25: once the bot is stopped, no stake record is left for a current market
\* that has no history entry.
C25_NoPendingStakeWhenStopped ==
    (Stopped /\ StakePending) =>
        \E i \in 1..Len(history) : history[i].market_id = current_market_id

\* The steps in which get_top_two_favourites is called.
FetchSteps ==
    {"favs", "skip_favs"}

\* C26: favourites are fetched (and a stake computed) for the market in hand
\* only when at most seconds_before_off seconds remain to its advertised
\* start; while more remain, a loop that has the market's start time only
\* goes to sleep for at most 60 s before it checks again.
C26_FetchOnlyWhenDue ==
    [][LET t == op'.task
       IN  /\ op'.name \in FetchSteps => clock <= seconds_before_off
           /\ (t # 0 /\ tasks[t].pc = "info" /\ clock > seconds_before_off
                 /\ op'.name \notin {"skip_info", "crash"}) =>
                 /\ op'.name = "wait"
                 /\ tasks'[t].pc = "pre_sleep"
                 /\ tasks'[t].sleep_for <= 60]_vars

OrderAllowed ==
    /\ calc_out.self.mode = "live"
    /\ calc_out.self.allow_live_bets

OrderGuarded ==
    calc_out.fn = "place_dutch_bets" =>
        LET res == calc_out.result
        IN  /\ \A i \in 1..Len(res.sent) : res.sent[i].method = "placeOrders"
            /\ res.sent # <<>> => OrderAllowed
            /\ res.placed => OrderAllowed
            /\ ~OrderAllowed => ~res.placed /\ ~res.raised /\ res.sent = <<>>
            /\ calc_out.self.mode \in {"dummy", "simulation", "live"}

C28_NoOrderUnlessLiveAndAllowed ==
    /\ []OrderGuarded
    /\ [][op' # op => calc_out' = calc_out]_vars

\* place_dutch_bets was called in live mode without the flag, in a run in
\* which the loop has recorded an outcome, and was blocked.
C28_Witness ==
    /\ calc_out.fn = "place_dutch_bets"
    /\ calc_out.self.mode = "live"
    /\ ~calc_out.self.allow_live_bets
    /\ calc_out.result.blocked
    /\ Len(history) >= 1

\* C29: the exchange account balance is informational only. The account-funds
\* lookup is made by the dashboard alone; whatever it returns (any balance,
\* no balance, or a failure), the step that makes it leaves the bank, the
\* settings, the selection, the index, the stake record, the carry, the
\* history and the loop exactly as they were, so two runs that differ only
\* in what the lookup returns go through the same stakes, skips and recorded
\* outcomes; and what the lookup returned stays on the page: no other step
\* takes it up.
LowState ==
    <<settings, bank, selected_markets, current_index, current_market_id,
      running, history, last_total_stake, last_favourites, recovery_target,
      tasks, runner_task>>

C29_FundsLookupChangesNothing ==
    [][/\ op'.name = "home" => LowState' = LowState
       /\ op'.name # "home" => calc_out' = calc_out]_vars

\* The dashboard has just shown an exchange balance that differs from the
\* paper bank, after the loop has recorded an outcome and while a stake is
\* still to be worked out for the next race.
C29_Witness ==
    /\ op.name = "home"
    /\ calc_out.fn = "render_dashboard"
    /\ calc_out.page.bf_balance.ok
    /\ Num(calc_out.page.bf_balance.val) # bank
    /\ Len(history) >= 1
    /\ running

\* C30: an outcome is always settled from the stake record captured at READY
\* for that same race. Whenever _record_auto_result runs in a task, the
\* last_total_stake and last_favourites it reads are the total stake and the
\* two favourites that the READY step of that task stored for the race, the
\* profit credited on a win is the projected profit worked out at READY, and
\* the amount debited on a loss is the total stake worked out at READY.
ReadyOf(t) ==
    tasks[t].ready

C31_EventuallyStops ==
    <>(~running)

\* C32: the running flag tracks the loop. In every reachable state,
\* state.running is True only if a loop task is live (created and not
\* finished), so that a start() after the loop has ended is never rejected
\* as "Already running".
LoopLive ==
    \E t \in Slots : Live(t)

C32_RunningOnlyWithLiveLoop ==
    running => LoopLive

\* The sum of total_stake over the first n history entries that were recorded
\* as lost after the last win among them.
RECURSIVE CarrySum(_)
CarrySum(n) ==
    IF n = 0
    THEN Zero
    ELSE IF history[n].won
    THEN Zero
    ELSE RAdd(CarrySum(n - 1), history[n].total_stake)

\* C33: in every reachable state the loss carry (recovery_target) is
\* non-negative and equals the sum of total_stake over the history entries
\* recorded as lost since the most recent win entry (or since the beginning
\* if there is none); stop(), start(), skips, timeouts and every other step
\* that records no outcome leave it unchanged.
C33_CarryIsSumOfLossesSinceWin ==
    /\ [](RLe(Zero, recovery_target) /\ recovery_target = CarrySum(Len(history)))
    /\ [][op'.name \notin OutcomeSteps => recovery_target' = recovery_target]_vars

\* Two losses in a row have been recorded in a run in which a request other
\* than the selection and the start was handled: the carry is the sum of the
\* two stakes.
C33_Witness ==
    /\ Len(history) >= 2
    /\ ~history[Len(history)].won
    /\ ~history[Len(history) - 1].won
    /\ RLt(Zero, history[Len(history)].total_stake)
    /\ RLt(Zero, history[Len(history) - 1].total_stake)
    /\ recovery_target = RAdd(history[Len(history) - 1].total_stake,
                              history[Len(history)].total_stake)
    /\ n_ops >= 3

\* C34: the bank never becomes negative through betting. Starting from a
\* bank >= 0, after any sequence of stakes, wins, losses, skips and timeouts
\* driven by the loop the bank is >= 0; and when the bank is <= 0 no stake
\* is computed: READY is not reached and the stake record is not written.
C34_BankNeverNegative ==
    /\ [](RLe(Zero, bank))
    /\ [][RLe(bank, Zero) =>
              /\ op'.name # "ready"
              /\ last_total_stake' = last_total_stake \/ last_total_stake' = Zero]_vars

\* With 50 % staked, two losses in a row have been recorded, each capped at
\* 30 % of the bank of its time: the bank is still positive.
C34_Witness ==
    /\ op.name = "lost"
    /\ Len(history) >= 2
    /\ ~history[1].won
    /\ ~history[2].won
    /\ RLt(Zero, bank)
    /\ RLt(bank, Num(50))

\* C35: replacing the race selection while the bot is running does not make
\* the loop pass over any race of the new selection. Whenever the loop moves
\* current_index on from a position that holds a race of the selection, the
\* race it has just staked, skipped or timed out is the race at that
\* position: so the races are handled in order from the first entry, none is
\* passed over before exhaustion is reported.
C35_NoRacePassedOver ==
    [][(op'.task \in Slots /\ current_index' = current_index + 1
          /\ current_index < Len(selected_markets)) =>
          selected_markets[current_index + 1] = tasks[op'.task].market_id]_vars

\* C36: the live-odds preview shows what the bot would do next. Whenever the
\* loop logs READY, the stakes and the profit that api_selected_live_odds
\* gives for the same state and the same two prices are the stakes and the
\* profit the loop has just worked out (_compute_total_stake_for_recovery
\* followed by _dutch_calc).
C36_PreviewEqualsReady ==
    [][op'.name = "ready" =>
          LET r == tasks'[op'.task].ready
              calc == dutch_calc(r.total_stake, r.favs[1].back, r.favs[2].back)
              row == selected_live_odds_row(r.favs)
          IN  /\ row.stake1 = calc.stake1
              /\ row.stake2 = calc.stake2
              /\ row.profit_if_win = r.profit_each]_vars

\* C37: after any sequence of /update_settings submissions, whatever the
\* fields hold (unparsable and negative values included), the stored
\* configuration satisfies 1.01 <= min_odds <= max_odds,
\* seconds_before_off >= 0 and tick_seconds >= 5; and a submission with the
\* reset flag leaves bank equal to starting_bank.
SettingsInBounds ==
    /\ RLe(Rat(101, 100), min_odds)
    /\ RLe(min_odds, max_odds)
    /\ seconds_before_off >= 0
    /\ tick_seconds >= 5

C37_SettingsClamped ==
    /\ []SettingsInBounds
    /\ [][\A form \in SettingsForms :
              (form.reset_bank /\ update_settings(form)) => bank' = starting_bank']_vars

\* A submission with a negative delay, odds bounds below 1.01 and a tick of
\* 1 s has been stored clamped, as the second request or later.
C37_Witness ==
    /\ op.name = "update_settings"
    /\ seconds_before_off = 0
    /\ tick_seconds = 5
    /\ min_odds = Rat(101, 100)
    /\ max_odds = Rat(101, 100)
    /\ n_ops >= 2

\* C38: a request whose session is not the logged-in one changes nothing:
\* /update_settings, /update_race_selection, /start and /stop leave the bank,
\* the settings, the selection, current_index, running and the runner (its
\* tasks, and everything else the strategy holds) as they were.
StrategyAndRunner ==
    <<settings, bank, selected_markets, current_index, current_market_id,
      running, history, last_total_stake, last_favourites, recovery_target,
      tasks, runner_task>>

C38_UnauthenticatedChangesNothing ==
    [][\A user \in Sessions \ {"admin"} :
          (\/ start_bot(user)
           \/ stop_bot(user)
           \/ \E form \in SettingsForms : post_update_settings(user, form)
           \/ \E selection \in Selections :
                  post_update_race_selection(user, selection))
          => UNCHANGED StrategyAndRunner]_vars

\* A request without a login has been answered with the redirect while the bot
\* was running, a task waiting and races selected.
C38_Witness ==
    /\ "status" \in DOMAIN op
    /\ op.status = 303
    /\ running
    /\ runner_task # 0
    /\ Live(runner_task)
    /\ selected_markets # <<>>

====
